---- MODULE Spec2Model ----
(***************************************************************************)
(* Repeat index builder of HISAT2 (class NRG, repeat_builder.cpp).         *)
(*                                                                         *)
(* The module models one NRG object: its fragment map with the lookaside   *)
(* cache, the LCP oracle, the scan loop of build(), mergeRepeatGroup(),    *)
(* groupRepeatGroup() and saveRepeatGroup().  Offsets are 0-based as in    *)
(* the code; TLA+ sequences are 1-based, so element i of an EList is       *)
(* written list[i + 1].                                                    *)
(***************************************************************************)
EXTENDS Integers, Sequences, FiniteSets, TLC

VARIABLES
    szs_,          \* EList<RefRecord>: the reference records (len, off, first)
    s_,            \* the joined sequence, one base per element
    forward_,      \* strand flag of the object
    endFirst,      \* whether the suffix stream delivers the end-of-text suffix first
    fraglist_,     \* EList<Fragments> built by buildJoinedFragment
    cached_,       \* Fragments cached_[CACHE_SIZE_JOINEDFRG]
    num_cached_,   \* number of occupied cache slots
    victim_,       \* round-robin cursor
    call,          \* the last completed query and what it returned
    pc,            \* position: "idle", or in build() "scan", "merge", "group", "sweep", "done", "saved"
    rpt_len,       \* build() arguments
    rpt_cnt,
    flagGrouping,
    rpt_edit,
    count,         \* number of suffixes consumed by the scan loop
    rpt_positions, \* the open cluster
    min_lcp_len,   \* minimum LCP of the open cluster
    rpt_grp_,      \* EList<RepeatGroup>
    rpt_ranges,    \* the range list of mergeRepeatGroup, after its sweep
    merged_count,  \* merged_count of mergeRepeatGroup
    gi,            \* outer index of the loop of groupRepeatGroup
    mgroup,        \* the local mgroup of mergeRepeatGroup and of groupRepeatGroup
    saved          \* the occurrence entries written by saveRepeatGroup

objVars   == <<szs_, s_, forward_, endFirst, fraglist_>>
cacheVars == <<cached_, num_cached_, victim_>>
argVars   == <<rpt_len, rpt_cnt, flagGrouping, rpt_edit>>
scanVars  == <<count, rpt_positions, min_lcp_len>>
postVars  == <<rpt_ranges, merged_count, gi, mgroup, saved>>
vars == <<szs_, s_, forward_, endFirst, fraglist_, cached_, num_cached_, victim_,
          call, pc, rpt_len, rpt_cnt, flagGrouping, rpt_edit, count,
          rpt_positions, min_lcp_len, rpt_grp_, rpt_ranges, merged_count, gi,
          mgroup, saved>>

(***************************************************************************)
(* Bounds of the model.                                                    *)
(***************************************************************************)
MaxRecs == 3        \* records in szs_, for the fragment map
MaxPlainRecs == 2   \* records in szs_, for the LCP oracle and build()
MaxFragLen == 2     \* length of one record, for the fragment map
MaxPlainLen == 3    \* length of one record, for the LCP oracle and build()
MaxOff == 1         \* gap before one record
MaxRptLen == 2      \* rpt_len
MaxRptCnt == 3      \* rpt_cnt
MaxEdit == 1        \* rpt_edit
MaxGroups == 3      \* groups handed to groupRepeatGroup on its own
MaxOccs == 2        \* occurrences of one group, for the range merger
MaxMergeOff == 2    \* largest joined offset, for the range merger
MaxTail == 1        \* bases of s_ behind the last fragment, for the LCP oracle
MaxLevLen == 3      \* length of a string handed to levenshtein_distance on its own
MaxSeqLen == 2      \* length of a representative handed to groupRepeatGroup on its own
\* Capacity of the lookaside cache.  The program sets it in repeat_builder.h;
\* the model keeps it small so that the cache fills and slots are replaced.
CACHE_SIZE_JOINEDFRG == 2

Bases == {0, 1}     \* codes of the bases that occur in the modelled sequences
NotFound == 0 - 1   \* mapJoinedOffToSeq's "no fragment"
NoVal == 0 - 1      \* a field the code leaves unset and never reads
INT_MAX == 2147483647
EMPTY_RANGE == <<1, 0>>

Min(a, b) == IF a < b THEN a ELSE b
SeqSum(f, n) == LET RECURSIVE Go(_)
                    Go(i) == IF i = 0 THEN 0 ELSE f[i] + Go(i - 1)
                IN Go(n)

(***************************************************************************)
(* Fragment map: buildJoinedFragment                                       *)
(***************************************************************************)
\* Fragments::contain
contain(frag, pos) == pos >= frag.start /\ pos < frag.start + frag.length

\* frag_id of the fragment made from record i (1-based) as slot npos (0-based)
FragIdRecordIndex(i, npos) == i - 1
FragId(i, npos) == npos

\* The loop of buildJoinedFragment from record i on, with its accumulators.
RECURSIVE BuildFromGaps(_, _, _, _, _, _)
BuildFromGaps(szs, i, npos, seq_id, acc_frag_length, acc_ref_length) ==
    IF i > Len(szs)
    THEN <<[start |-> acc_frag_length, length |-> 0,
            start_in_seq |-> acc_ref_length + szs[Len(szs)].off,
            frag_id |-> NoVal, seq_id |-> NoVal, first |-> FALSE]>>
    ELSE IF szs[i].len = 0
    THEN BuildFromGaps(szs, i + 1, npos, seq_id, acc_frag_length, acc_ref_length)
    ELSE LET sid == IF szs[i].first THEN seq_id + 1 ELSE seq_id
         IN <<[start |-> acc_frag_length, length |-> szs[i].len,
               start_in_seq |-> acc_ref_length + szs[i].off,
               frag_id |-> FragId(i, npos), seq_id |-> sid,
               first |-> szs[i].first]>>
            \o BuildFromGaps(szs, i + 1, npos + 1, sid,
                             acc_frag_length + szs[i].off + szs[i].len,
                             acc_ref_length + szs[i].off + szs[i].len)
RECURSIVE BuildFrom(_, _, _, _, _, _)
BuildFrom(szs, i, npos, seq_id, acc_frag_length, acc_ref_length) ==
    IF i > Len(szs)
    THEN <<[start |-> acc_frag_length, length |-> 0,
            start_in_seq |-> acc_ref_length + szs[Len(szs)].off,
            frag_id |-> NoVal, seq_id |-> NoVal, first |-> FALSE]>>
    ELSE IF szs[i].len = 0
    THEN BuildFrom(szs, i + 1, npos, seq_id, acc_frag_length, acc_ref_length)
    ELSE LET sid == IF szs[i].first THEN seq_id + 1 ELSE seq_id
         IN <<[start |-> acc_frag_length, length |-> szs[i].len,
               start_in_seq |-> acc_ref_length + szs[i].off,
               frag_id |-> FragId(i, npos), seq_id |-> sid,
               first |-> szs[i].first]>>
            \o BuildFrom(szs, i + 1, npos + 1, sid,
                         acc_frag_length + szs[i].len,
                         acc_ref_length + szs[i].off + szs[i].len)

buildJoinedFragment(szs) == BuildFrom(szs, 1, 0, 0 - 1, 0, 0)

(***************************************************************************)
(* Fragment map: mapJoinedOffToSeq and getGenomeCoord                      *)
(***************************************************************************)
\* The binary search of mapJoinedOffToSeq: the value of top when it ends.
RECURSIVE SearchLoopLower(_, _, _, _)
SearchLoopLower(fl, joined_pos, top, bot) ==
    IF bot - top > 1
    THEN LET pos == top + ((bot - top) \div 2)
         IN IF joined_pos <= fl[pos + 1].start
            THEN SearchLoopLower(fl, joined_pos, top, pos)
            ELSE SearchLoopLower(fl, joined_pos, pos, bot)
    ELSE top
RECURSIVE SearchLoop(_, _, _, _)
SearchLoop(fl, joined_pos, top, bot) ==
    IF bot - top > 1
    THEN LET pos == top + ((bot - top) \div 2)
         IN IF joined_pos < fl[pos + 1].start
            THEN SearchLoop(fl, joined_pos, top, pos)
            ELSE SearchLoop(fl, joined_pos, pos, bot)
    ELSE top

\* The part of mapJoinedOffToSeq after the cache probe: the cache-free answer.
SearchList(fl, joined_pos) ==
    LET top == SearchLoop(fl, joined_pos, 0, Len(fl) - 1)
    IN IF contain(fl[top + 1], joined_pos) THEN top ELSE NotFound

\* A cache state is [cached, num, victim]; cached is a function on the slots.
CacheOf(c, n, v) == [cached |-> c, num |-> n, victim |-> v]

\* The cache update of a verified miss.
UpdateCacheNoWrap(C, frag) ==
    IF C.num < CACHE_SIZE_JOINEDFRG
    THEN [C EXCEPT !.cached[C.num] = frag, !.num = C.num + 1]
    ELSE [C EXCEPT !.cached[C.victim] = frag, !.victim = C.victim]
UpdateCache(C, frag) ==
    IF C.num < CACHE_SIZE_JOINEDFRG
    THEN [C EXCEPT !.cached[C.num] = frag, !.num = C.num + 1]
    ELSE [C EXCEPT !.cached[C.victim] = frag,
                   !.victim = (C.victim + 1) % CACHE_SIZE_JOINEDFRG]

\* mapJoinedOffToSeq without its cache probe
mapJoinedOffToSeqNoProbe(fl, C, joined_pos) ==
    LET top == SearchLoop(fl, joined_pos, 0, Len(fl) - 1)
    IN IF contain(fl[top + 1], joined_pos)
       THEN [ret |-> top, cache |-> UpdateCache(C, fl[top + 1])]
       ELSE [ret |-> NotFound, cache |-> C]

\* mapJoinedOffToSeq on cache state C: [ret, cache]
mapJoinedOffToSeq(fl, C, joined_pos) ==
    LET hits == {i \in 0 .. C.num - 1 : contain(C.cached[i], joined_pos)}
    IN IF hits # {}
       THEN LET i == CHOOSE h \in hits : \A g \in hits : h <= g
            IN [ret |-> C.cached[i].frag_id, cache |-> C]
       ELSE LET top == SearchLoop(fl, joined_pos, 0, Len(fl) - 1)
            IN IF contain(fl[top + 1], joined_pos)
               THEN [ret |-> top, cache |-> UpdateCache(C, fl[top + 1])]
               ELSE [ret |-> NotFound, cache |-> C]

\* getGenomeCoord on cache state C: [ret, written, chr, pos_in_chr, cache].
\* chr is the index into ref_names_; written tells whether the two output
\* parameters were assigned.
PosInChrNoStart(frag, joined_pos) == frag.start_in_seq + joined_pos
PosInChr(frag, joined_pos) == frag.start_in_seq + (joined_pos - frag.start)

getGenomeCoord(fl, C, joined_pos) ==
    LET m == mapJoinedOffToSeq(fl, C, joined_pos)
    IN IF m.ret < 0
       THEN [ret |-> 0 - 1, written |-> FALSE, chr |-> NoVal,
             pos_in_chr |-> NoVal, cache |-> m.cache]
       ELSE LET frag == fl[m.ret + 1]
            IN [ret |-> 0, written |-> TRUE, chr |-> frag.seq_id,
                pos_in_chr |-> PosInChr(frag, joined_pos), cache |-> m.cache]

(***************************************************************************)
(* LCP oracle: getLCP                                                      *)
(***************************************************************************)
\* The bounds a_end and b_end of getLCP once both fragments are known.
LcpEndsWhole(fl, fw, s_len, a_frag_id, b_frag_id) == <<s_len, s_len>>
LcpEndsForward(fl, fw, s_len, a_frag_id, b_frag_id) ==
    <<fl[a_frag_id + 1].start + fl[a_frag_id + 1].length,
      fl[b_frag_id + 1].start + fl[b_frag_id + 1].length>>
LcpEnds(fl, fw, s_len, a_frag_id, b_frag_id) ==
    IF fw
    THEN <<fl[a_frag_id + 1].start + fl[a_frag_id + 1].length,
           fl[b_frag_id + 1].start + fl[b_frag_id + 1].length>>
    ELSE <<s_len - fl[a_frag_id + 1].start, s_len - fl[b_frag_id + 1].start>>

\* The final while loop of getLCP.
RECURSIVE LcpScan(_, _, _, _, _, _)
LcpScan(s, a, b, a_end, b_end, k) ==
    IF (a + k) < a_end /\ (b + k) < b_end
    THEN IF s[a + k + 1] # s[b + k + 1]
         THEN k
         ELSE LcpScan(s, a, b, a_end, b_end, k + 1)
    ELSE k

\* Number of evaluations of s_[a + k] != s_[b + k] in that loop.
RECURSIVE LcpReads(_, _, _, _, _, _)
LcpReads(s, a, b, a_end, b_end, k) ==
    IF (a + k) < a_end /\ (b + k) < b_end
    THEN IF s[a + k + 1] # s[b + k + 1]
         THEN k + 1
         ELSE LcpReads(s, a, b, a_end, b_end, k + 1)
    ELSE k

\* getLCP as it is built with the fragment lookup compiled out (the #else
\* branch): both bounds are the end of the sequence.
getLCPUnclipped(fl, C, s, fw, a, b) ==
    IF a >= Len(s) \/ b >= Len(s)
    THEN [ret |-> 0, cache |-> C, failed |-> FALSE, reads |-> 0]
    ELSE [ret |-> LcpScan(s, a, b, Len(s), Len(s), 0), cache |-> C,
          failed |-> FALSE, reads |-> LcpReads(s, a, b, Len(s), Len(s), 0)]

\* getLCP(a, b) on cache state C: [ret, cache, failed, reads]; failed tells
\* that a fragment lookup returned NotFound, reads how often the loop
\* compared two bases.
getLCP(fl, C, s, fw, a, b) ==
    LET s_len == Len(s)
    IN IF a >= s_len \/ b >= s_len
       THEN [ret |-> 0, cache |-> C, failed |-> FALSE, reads |-> 0]
       ELSE LET ma == mapJoinedOffToSeq(fl, C, IF fw THEN a ELSE s_len - a - 1)
                mb == mapJoinedOffToSeq(fl, ma.cache,
                                        IF fw THEN b ELSE s_len - b - 1)
            IN IF ma.ret < 0 \/ mb.ret < 0
               THEN [ret |-> 0, cache |-> mb.cache, failed |-> TRUE,
                     reads |-> 0]
               ELSE LET e == LcpEnds(fl, fw, s_len, ma.ret, mb.ret)
                    IN [ret |-> LcpScan(s, a, b, e[1], e[2], 0),
                        cache |-> mb.cache, failed |-> FALSE,
                        reads |-> LcpReads(s, a, b, e[1], e[2], 0)]

(***************************************************************************)
(* Suffix stream (BlockwiseSA::nextSuffix)                                 *)
(***************************************************************************)
\* Base at offset i of the text as the suffix order sees it.  The position
\* behind the text compares as greater than every base, or, when the stream
\* delivers the end-of-text suffix first, as smaller.
SufChar(s, i, ef) == IF i < Len(s) THEN s[i + 1] ELSE IF ef THEN 0 - 1 ELSE 4

RECURSIVE SufLessFrom(_, _, _, _, _)
SufLessFrom(s, a, b, ef, k) ==
    IF SufChar(s, a + k, ef) # SufChar(s, b + k, ef)
    THEN SufChar(s, a + k, ef) < SufChar(s, b + k, ef)
    ELSE SufLessFrom(s, a, b, ef, k + 1)

\* suffix a sorts before suffix b
SufLess(s, a, b, ef) == a # b /\ SufLessFrom(s, a, b, ef, 0)

\* the suffix returned by the (c+1)-th call of nextSuffix
nextSuffix(s, ef, c) ==
    CHOOSE x \in 0 .. Len(s) :
        Cardinality({y \in 0 .. Len(s) : SufLess(s, y, x, ef)}) = c

(***************************************************************************)
(* Repeat scanner: the loop of build()                                     *)
(***************************************************************************)
\* getString(ref, start, len)
getString(ref, start, len) ==
    SubSeq(ref, start + 1, Min(start + len, Len(ref)))

\* sort(..., compareRepeatCoordByJoinedOff).  Coordinates with equal
\* joinedOff are equal here (every fw of one object is forward_), so the
\* result does not depend on how the sort places ties.
SortByJoinedOffNone(ps) == ps
RECURSIVE SortByJoinedOff(_)
SortByJoinedOff(ps) ==
    IF Len(ps) = 0 THEN <<>>
    ELSE LET m == CHOOSE i \in 1 .. Len(ps) :
                     \A j \in 1 .. Len(ps) :
                         /\ ps[i].joinedOff <= ps[j].joinedOff
                         /\ ps[i].joinedOff = ps[j].joinedOff => i <= j
         IN <<ps[m]>> \o SortByJoinedOff(SubSeq(ps, 1, m - 1)
                                         \o SubSeq(ps, m + 1, Len(ps)))

RepeatCoord(off, fw) == [joinedOff |-> off, fw |-> fw]

\* RepeatGroup as addRepeatGroup and mergeRepeatGroup create it
RepeatGroup(seq, positions) ==
    [seq |-> seq, positions |-> positions, alt_seq |-> <<>>, empty |-> FALSE]

addRepeatGroup(grp, rpt_seq, positions) ==
    Append(grp, RepeatGroup(rpt_seq, positions))

\* the threshold tests of the scan loop
ContinuesAlways(lcp_len, len) == TRUE
ContinuesStrict(lcp_len, len) == lcp_len > len
Continues(lcp_len, len) == lcp_len >= len
EnoughAlways(size, cnt) == TRUE
Enough(size, cnt) == size >= cnt

\* min_lcp_len after a suffix with LCP lcp_len has joined the open cluster
MinLcpLast(min_lcp, lcp_len) == lcp_len
MinLcp(min_lcp, lcp_len) == IF min_lcp > lcp_len THEN lcp_len ELSE min_lcp

\* the length handed to getString when a cluster is closed
RepLenWhole(s, min_lcp) == Len(s)
RepLen(s, min_lcp) == min_lcp

(***************************************************************************)
(* Range merger: mergeRepeatGroup                                          *)
(***************************************************************************)
RepeatRange(r, id, fw) == [range |-> r, rg_id |-> id, forward |-> fw]

\* checkRangeMergeable
checkRangeMergeableStrict(a, b) == a[1] < b[1] /\ a[2] >= b[2]
checkRangeMergeable(a, b) == a[1] <= b[1] /\ a[2] >= b[2]

\* compareRepeatRangeByRange
compareRepeatRangeByRangeAsc(a, b) ==
    \/ a.range[2] < b.range[2]
    \/ (a.range[2] = b.range[2] /\ a.range[1] < b.range[1])
compareRepeatRangeByRange(a, b) ==
    \/ a.range[2] > b.range[2]
    \/ (a.range[2] = b.range[2] /\ a.range[1] < b.range[1])

\* compareRepeatRangeByRgID
compareRepeatRangeByRgID(a, b) == a.rg_id < b.rg_id

\* The flatten loops: the ranges of groups i.. of grp (i is 1-based).
RECURSIVE Flatten(_, _)
Flatten(grp, i) ==
    IF i > Len(grp) THEN <<>>
    ELSE [j \in 1 .. Len(grp[i].positions) |->
             RepeatRange(<<grp[i].positions[j].joinedOff,
                           grp[i].positions[j].joinedOff + Len(grp[i].seq)>>,
                         i - 1, grp[i].positions[j].fw)]
         \o Flatten(grp, i + 1)

\* What std::sort by compareRepeatRangeByRange may leave: every arrangement
\* of r in which no element precedes one that compares before it.
RECURSIVE SortedByRange(_, _)
SortedByRange(r, left) ==
    IF left = {} THEN {<<>>}
    ELSE UNION {{<<r[m]>> \o rest : rest \in SortedByRange(r, left \ {m})} :
                m \in {i \in left :
                          \A j \in left : ~compareRepeatRangeByRange(r[j], r[i])}}

\* sort by compareRepeatRangeByRgID.  The regrouping below depends only on
\* which ranges carry which id, so ties are kept in their order.
RECURSIVE SortByRgID(_)
SortByRgID(r) ==
    IF Len(r) = 0 THEN <<>>
    ELSE LET m == CHOOSE i \in 1 .. Len(r) :
                     \A j \in 1 .. Len(r) :
                         /\ ~compareRepeatRangeByRgID(r[j], r[i])
                         /\ r[i].rg_id = r[j].rg_id => i <= j
         IN <<r[m]>> \o SortByRgID(SubSeq(r, 1, m - 1) \o SubSeq(r, m + 1, Len(r)))

IsRemoved(x) == x.range = EMPTY_RANGE

\* The subsumption sweep from outer index i and inner index j (0-based):
\* [ranges, merged_count].
RECURSIVE SweepFromOne(_, _, _, _)
SweepFromOne(r, i, j, cnt) ==
    IF ~(i < Len(r) - 1) THEN [ranges |-> r, merged_count |-> cnt]
    ELSE IF j < Len(r) /\ checkRangeMergeable(r[i + 1].range, r[j + 1].range)
    THEN SweepFromOne([r EXCEPT ![j + 1] = [@ EXCEPT !.range = EMPTY_RANGE,
                                                     !.rg_id = INT_MAX]],
                      j + 1, j + 2, cnt + 1)
    ELSE SweepFromOne(r, j, j + 1, cnt)
RECURSIVE SweepFrom(_, _, _, _)
SweepFrom(r, i, j, cnt) ==
    IF ~(i < Len(r) - 1) THEN [ranges |-> r, merged_count |-> cnt]
    ELSE IF j < Len(r) /\ checkRangeMergeable(r[i + 1].range, r[j + 1].range)
    THEN SweepFrom([r EXCEPT ![j + 1] = [@ EXCEPT !.range = EMPTY_RANGE,
                                                  !.rg_id = INT_MAX]],
                   i, j + 1, cnt + 1)
    ELSE SweepFrom(r, j, j + 1, cnt)

Sweep(r) == SweepFrom(r, 0, 1, 0)

\* exclusive end of the run of equal rg_id that starts at i (0-based)
RECURSIVE RunEnd(_, _, _)
RunEnd(r, i, j) ==
    IF j < Len(r) /\ r[i + 1].rg_id = r[j + 1].rg_id
    THEN RunEnd(r, i, j + 1) ELSE j

\* last index (exclusive) that the regroup loop may start a run at
RegroupLimitAll(r) == Len(r)
RegroupLimit(r) == Len(r) - 1

\* The regroup loop from index i (0-based) over the ranges sorted by rg_id.
RECURSIVE RegroupFrom(_, _, _)
RegroupFrom(r, old, i) ==
    IF ~(i < RegroupLimit(r)) THEN <<>>
    ELSE IF r[i + 1].rg_id = INT_MAX THEN <<>>
    ELSE LET j == RunEnd(r, i, i + 1)
             ps == [k \in 1 .. j - i |->
                       RepeatCoord(r[i + k].range[1], r[i + k].forward)]
         IN <<RepeatGroup(old[r[i + 1].rg_id + 1].seq, SortByJoinedOff(ps))>>
            \o RegroupFrom(r, old, j)

(***************************************************************************)
(* Approximate grouper: groupRepeatGroup                                   *)
(***************************************************************************)
\* One row of levenshtein_distance: col from prevCol for character c of s1,
\* filled from index j (0-based) on.
RECURSIVE LevRow(_, _, _, _, _)
LevRow(prevCol, col, c, s2, j) ==
    IF j >= Len(s2) THEN col
    ELSE LevRow(prevCol,
                [col EXCEPT ![j + 1] =
                    Min(Min(prevCol[1 + j] + 1, col[j] + 1),
                        prevCol[j] + (IF c = s2[j + 1] THEN 0 ELSE 1))],
                c, s2, j + 1)

RECURSIVE LevRows(_, _, _, _, _)
LevRows(s1, s2, i, col, prevCol) ==
    IF i >= Len(s1) THEN prevCol[Len(s2)]
    ELSE LevRows(s1, s2, i + 1, prevCol,
                 LevRow(prevCol, [col EXCEPT ![0] = i + 1], s1[i + 1], s2, 0))

levenshteinNoInit(s1, s2) ==
    LevRows(s1, s2, 0, [j \in 0 .. Len(s2) |-> 0], [j \in 0 .. Len(s2) |-> 0])
levenshtein_distance(s1, s2) ==
    LevRows(s1, s2, 0, [j \in 0 .. Len(s2) |-> 0], [j \in 0 .. Len(s2) |-> j])

checkSequenceMergeableStrict(s1, s2, max_edit) ==
    levenshtein_distance(s1, s2) < max_edit
checkSequenceMergeable(s1, s2, max_edit) ==
    levenshtein_distance(s1, s2) <= max_edit

\* RepeatGroup::merge, set_empty and empty
GroupMerge(g, other) == [g EXCEPT !.alt_seq = Append(@, other.seq)]
GroupSetEmpty(g) == [g EXCEPT !.empty = TRUE]
GroupEmpty(g) == g.empty

\* The inner loop of groupRepeatGroup for outer index i from j on (0-based).
RECURSIVE GroupInner(_, _, _, _)
GroupInner(grp, i, j, edit) ==
    IF j >= Len(grp) THEN grp
    ELSE IF checkSequenceMergeable(grp[i + 1].seq, grp[j + 1].seq, edit)
    THEN GroupInner([grp EXCEPT ![i + 1] = GroupMerge(@, grp[j + 1]),
                                ![j + 1] = GroupSetEmpty(@)],
                    i, j + 1, edit)
    ELSE GroupInner(grp, i, j + 1, edit)

\* One iteration of the outer loop.
GroupOuterSkipNext(grp, i, edit) ==
    IF GroupEmpty(grp[i + 1]) THEN grp ELSE GroupInner(grp, i, i + 2, edit)
GroupOuterBody(grp, i, edit) ==
    IF GroupEmpty(grp[i + 1]) THEN grp ELSE GroupInner(grp, i, i + 1, edit)

\* The outer loop from index i on (0-based).
RECURSIVE GroupSweep(_, _, _)
GroupSweep(grp, i, edit) ==
    IF i < Len(grp) - 1
    THEN GroupSweep(GroupOuterBody(grp, i, edit), i + 1, edit)
    ELSE grp

\* The compaction that ends groupRepeatGroup.
CompactFromKeepAll(mg, i) == SubSeq(mg, i, Len(mg))
RECURSIVE CompactFrom(_, _)
CompactFrom(mg, i) ==
    IF i > Len(mg) THEN <<>>
    ELSE (IF ~GroupEmpty(mg[i]) THEN <<mg[i]>> ELSE <<>>) \o CompactFrom(mg, i + 1)

\* the test that opens groupRepeatGroup
NoGroupsNever(grp) == FALSE
NoGroups(grp) == Len(grp) = 0

\* groupRepeatGroup(rpt_edit) as a whole
groupRepeatGroup(grp, edit) ==
    IF NoGroups(grp) THEN grp ELSE CompactFrom(GroupSweep(grp, 0, edit), 1)

(***************************************************************************)
(* The NRG object after its constructor, and the idle values of the state  *)
(* of build() before it is called.                                         *)
(***************************************************************************)
NoFrag == [start |-> 0, length |-> 0, start_in_seq |-> 0,
           frag_id |-> NoVal, seq_id |-> NoVal, first |-> FALSE]
NoCall == [op |-> "none", a |-> 0, b |-> 0, ret |-> 0, hit |-> FALSE,
           written |-> FALSE, chr |-> NoVal, pos_in_chr |-> NoVal,
           reads |-> 0]

JoinedLen == SeqSum([i \in 1 .. Len(szs_) |-> szs_[i].len], Len(szs_))
Cache == CacheOf(cached_, num_cached_, victim_)

\* Record lists as the reference reader produces them: the first record opens
\* a sequence, a record that continues a sequence follows a gap, and a
\* sequence without any base is a single record.
RefRecords ==
    LET R == [len : 0 .. MaxFragLen, off : 0 .. MaxOff, first : BOOLEAN]
        Ok(szs) == /\ szs[1].first
                   /\ \A i \in 1 .. Len(szs) : ~szs[i].first => szs[i].off >= 1
                   /\ \A i \in 1 .. Len(szs) - 1 :
                         (szs[i].first /\ szs[i].len = 0) => szs[i + 1].first
    IN UNION {{szs \in [1 .. n -> R] : Ok(szs)} : n \in 1 .. MaxRecs}

\* Record lists that differ in their lengths only.
PlainRecords ==
    UNION {[1 .. n -> [len : 0 .. MaxPlainLen, off : {0}, first : {TRUE}]] :
           n \in 1 .. MaxPlainRecs}

\* The cache starts empty, with the cursor on slot 0.
CacheInit ==
    /\ cached_ = [i \in 0 .. CACHE_SIZE_JOINEDFRG - 1 |-> NoFrag]
    /\ num_cached_ = 0
    /\ victim_ = 0

ObjInit(recs) ==
    /\ szs_ \in recs
    /\ fraglist_ = buildJoinedFragment(szs_)
    /\ CacheInit
    /\ call = NoCall

IdleBuild ==
    /\ rpt_len = 0 /\ rpt_cnt = 0 /\ flagGrouping = FALSE /\ rpt_edit = 0
    /\ count = 0 /\ rpt_positions = <<>> /\ min_lcp_len = 0
    /\ rpt_grp_ = <<>> /\ rpt_ranges = <<>> /\ merged_count = 0
    /\ gi = 0 /\ mgroup = <<>> /\ saved = <<>>

(***************************************************************************)
(* Queries of the fragment map                                             *)
(***************************************************************************)
SetCache(C) ==
    /\ cached_' = C.cached
    /\ num_cached_' = C.num
    /\ victim_' = C.victim

\* one call of mapJoinedOffToSeq(p)
MapQuery ==
    \E p \in 0 .. JoinedLen + 1 :
        LET m == mapJoinedOffToSeq(fraglist_, Cache, p)
        IN /\ pc = "idle"
           /\ SetCache(m.cache)
           /\ call' = [NoCall EXCEPT !.op = "map", !.a = p, !.ret = m.ret,
                          !.hit = (m.ret >= 0 /\ m.cache = Cache)]
           /\ UNCHANGED <<objVars, pc, argVars, scanVars, rpt_grp_, postVars>>

\* one call of getGenomeCoord(p, chr_name, pos_in_chr)
CoordQuery ==
    \E p \in 0 .. JoinedLen + 1 :
        LET g == getGenomeCoord(fraglist_, Cache, p)
        IN /\ pc = "idle"
           /\ SetCache(g.cache)
           /\ call' = [NoCall EXCEPT !.op = "coord", !.a = p, !.ret = g.ret,
                          !.hit = (g.ret >= 0 /\ g.cache = Cache),
                          !.written = g.written, !.chr = g.chr,
                          !.pos_in_chr = g.pos_in_chr]
           /\ UNCHANGED <<objVars, pc, argVars, scanVars, rpt_grp_, postVars>>

MapInit ==
    /\ ObjInit(RefRecords)
    /\ s_ = [i \in 1 .. JoinedLen |-> 0]
    /\ forward_ = TRUE
    /\ endFirst = FALSE
    /\ pc = "idle"
    /\ IdleBuild

MapNext == MapQuery \/ CoordQuery

SpecMap == MapInit /\ [][MapNext]_vars

(***************************************************************************)
(* build(rpt_len, rpt_cnt, flagGrouping, rpt_edit)                         *)
(***************************************************************************)
\* one iteration of the while loop of build()
ScanStep ==
    LET saElt == nextSuffix(s_, endFirst, count)
        here == RepeatCoord(saElt, forward_)
        prev_saElt == rpt_positions[Len(rpt_positions)].joinedOff
        g == getLCP(fraglist_, Cache, s_, forward_, prev_saElt, saElt)
    IN /\ pc = "scan"
       /\ count < Len(s_) + 1
       /\ count' = count + 1
       /\ pc' = IF count + 1 < Len(s_) + 1 THEN "scan" ELSE "merge"
       /\ IF Len(rpt_positions) = 0
          THEN /\ rpt_positions' = <<here>>
               /\ UNCHANGED <<min_lcp_len, rpt_grp_, cacheVars>>
          ELSE /\ SetCache(g.cache)
               /\ IF Continues(g.ret, rpt_len)
                  THEN /\ rpt_positions' = Append(rpt_positions, here)
                       /\ min_lcp_len' = MinLcp(min_lcp_len, g.ret)
                       /\ UNCHANGED rpt_grp_
                  ELSE /\ rpt_grp_' =
                            IF Enough(Len(rpt_positions), rpt_cnt)
                            THEN addRepeatGroup(
                                     rpt_grp_,
                                     getString(s_, prev_saElt, RepLen(s_, min_lcp_len)),
                                     SortByJoinedOff(rpt_positions))
                            ELSE rpt_grp_
                       /\ rpt_positions' = <<here>>
                       /\ min_lcp_len' = Len(s_)
       /\ UNCHANGED <<objVars, call, argVars, postVars>>

\* where build() goes on after mergeRepeatGroup() has returned
AfterMergeAlways(fg) == "group"
AfterMerge(fg) == IF fg THEN "group" ELSE "done"

\* mergeRepeatGroup(), and the test of flagGrouping that follows it
MergeRepeatGroup ==
    LET range_count == Len(Flatten(rpt_grp_, 1))
        next == AfterMerge(flagGrouping)
    IN /\ pc = "merge"
       /\ pc' = next
       /\ IF range_count = 0
          THEN UNCHANGED <<rpt_grp_, rpt_ranges, merged_count, mgroup>>
          ELSE \E sorted \in SortedByRange(Flatten(rpt_grp_, 1), 1 .. range_count) :
                  LET sw == Sweep(sorted)
                  IN /\ rpt_ranges' = sw.ranges
                     /\ merged_count' = sw.merged_count
                     /\ mgroup' = rpt_grp_
                     /\ rpt_grp_' = RegroupFrom(SortByRgID(sw.ranges), rpt_grp_, 0)
       /\ UNCHANGED <<objVars, cacheVars, call, argVars, scanVars, gi, saved>>

\* groupRepeatGroup(rpt_edit): entry, with the return on an empty list
GroupStart ==
    /\ pc = "group"
    /\ pc' = IF NoGroups(rpt_grp_) THEN "done" ELSE "sweep"
    /\ gi' = 0
    /\ UNCHANGED <<objVars, cacheVars, call, argVars, scanVars, rpt_grp_,
                   rpt_ranges, merged_count, mgroup, saved>>

\* groupRepeatGroup: one iteration of the outer loop
GroupOuter ==
    /\ pc = "sweep"
    /\ gi < Len(rpt_grp_) - 1
    /\ rpt_grp_' = GroupOuterBody(rpt_grp_, gi, rpt_edit)
    /\ gi' = gi + 1
    /\ UNCHANGED <<objVars, cacheVars, call, pc, argVars, scanVars,
                   rpt_ranges, merged_count, mgroup, saved>>

\* groupRepeatGroup: the swap into mgroup and the compaction
GroupCompact ==
    /\ pc = "sweep"
    /\ ~(gi < Len(rpt_grp_) - 1)
    /\ mgroup' = rpt_grp_
    /\ rpt_grp_' = CompactFrom(rpt_grp_, 1)
    /\ pc' = "done"
    /\ UNCHANGED <<objVars, cacheVars, call, argVars, scanVars,
                   rpt_ranges, merged_count, gi, saved>>

(***************************************************************************)
(* saveRepeatGroup                                                         *)
(***************************************************************************)
NoName == 0 - 2     \* the empty chr_name of a std::string that was never assigned

\* What one pass of the position loop writes for coordinate c.  The return
\* value of getGenomeCoord is not looked at; chr_name and pos_in_chr are read
\* whether or not they were assigned, and an unassigned pos_in_chr holds junk.
SavedEntry(i, c, g, junk) ==
    [grp |-> i, joinedOff |-> c.joinedOff, translated |-> g.written,
     chr |-> IF g.written THEN g.chr ELSE NoName,
     pos_in_chr |-> IF g.written THEN g.pos_in_chr ELSE junk,
     direction |-> c.fw]

\* The loops of saveRepeatGroup from group i, position j (1-based):
\* [entries, cache].
RECURSIVE SaveFrom(_, _, _, _, _)
SaveFrom(grp, i, j, C, junk) ==
    IF i > Len(grp) THEN [entries |-> <<>>, cache |-> C]
    ELSE IF j > Len(grp[i].positions) THEN SaveFrom(grp, i + 1, 1, C, junk)
    ELSE LET g == getGenomeCoord(fraglist_, C, grp[i].positions[j].joinedOff)
             rest == SaveFrom(grp, i, j + 1, g.cache, junk)
         IN [entries |-> <<SavedEntry(i - 1, grp[i].positions[j], g, junk)>>
                         \o rest.entries,
             cache |-> rest.cache]

SaveRepeatGroup ==
    \E junk \in 0 .. Len(s_) :
        LET r == SaveFrom(rpt_grp_, 1, 1, Cache, junk)
        IN /\ pc = "done"
           /\ pc' = "saved"
           /\ saved' = r.entries
           /\ SetCache(r.cache)
           /\ UNCHANGED <<objVars, call, argVars, scanVars, rpt_grp_,
                          rpt_ranges, merged_count, gi, mgroup>>

BuildInit ==
    /\ ObjInit(PlainRecords)
    /\ s_ \in [1 .. JoinedLen -> Bases]
    /\ forward_ \in BOOLEAN
    /\ endFirst \in BOOLEAN
    /\ rpt_len \in 0 .. MaxRptLen
    /\ rpt_cnt \in 1 .. MaxRptCnt
    /\ flagGrouping \in BOOLEAN
    /\ rpt_edit \in 0 .. MaxEdit
    /\ ~flagGrouping => rpt_edit = 0
    /\ pc = "scan"
    /\ count = 0
    /\ rpt_positions = <<>>
    /\ min_lcp_len = Len(s_)
    /\ rpt_grp_ = <<>> /\ rpt_ranges = <<>> /\ merged_count = 0
    /\ gi = 0 /\ mgroup = <<>> /\ saved = <<>>

BuildNext ==
    \/ ScanStep
    \/ MergeRepeatGroup
    \/ GroupStart
    \/ GroupOuter
    \/ GroupCompact
    \/ SaveRepeatGroup

SpecBuild == BuildInit /\ [][BuildNext]_vars

(***************************************************************************)
(* groupRepeatGroup on a group list of its own                             *)
(***************************************************************************)
\* Strings over Bases of length 0 .. n
Strings(n) == UNION {[1 .. k -> Bases] : k \in 0 .. n}

\* Group lists as mergeRepeatGroup leaves them: no alternates, no tombstone,
\* at least one position; group k holds the occurrence at joined offset k - 1.
GroupLists ==
    UNION {{[k \in 1 .. n |->
                RepeatGroup(q[k], <<RepeatCoord(k - 1, TRUE)>>)] :
            q \in [1 .. n -> Strings(MaxSeqLen)]} : n \in 0 .. MaxGroups}

GroupInit ==
    /\ szs_ = <<[len |-> 0, off |-> 0, first |-> TRUE]>>
    /\ fraglist_ = buildJoinedFragment(szs_)
    /\ CacheInit
    /\ call = NoCall
    /\ s_ = <<>>
    /\ forward_ = TRUE
    /\ endFirst = FALSE
    /\ rpt_len = 0 /\ rpt_cnt = 0
    /\ flagGrouping = TRUE
    /\ rpt_edit \in 0 .. MaxEdit
    /\ pc = "group"
    /\ count = 0 /\ rpt_positions = <<>> /\ min_lcp_len = 0
    /\ rpt_grp_ \in GroupLists
    /\ rpt_ranges = <<>> /\ merged_count = 0
    /\ gi = 0 /\ mgroup = <<>> /\ saved = <<>>

GroupNext == GroupStart \/ GroupOuter \/ GroupCompact

SpecGroup == GroupInit /\ [][GroupNext]_vars

(***************************************************************************)
(* mergeRepeatGroup on a group list of its own                             *)
(***************************************************************************)
\* Group lists with any occurrences: 1 .. MaxGroups groups, each with a
\* representative of length 0 .. MaxSeqLen and 1 .. MaxOccs occurrences at
\* joined offsets 0 .. MaxMergeOff, so that ranges may nest, overlap and
\* coincide.
MergeLists ==
    LET Seqs == {[i \in 1 .. k |-> 0] : k \in 0 .. MaxSeqLen}
        Poss == UNION {[1 .. m -> {RepeatCoord(o, TRUE) : o \in 0 .. MaxMergeOff}] :
                       m \in 1 .. MaxOccs}
        Grps == {RepeatGroup(q, ps) : q \in Seqs, ps \in Poss}
    IN UNION {[1 .. n -> Grps] : n \in 1 .. MaxGroups}

MergeInit ==
    /\ szs_ = <<[len |-> 0, off |-> 0, first |-> TRUE]>>
    /\ fraglist_ = buildJoinedFragment(szs_)
    /\ CacheInit
    /\ call = NoCall
    /\ s_ = <<>>
    /\ forward_ = TRUE
    /\ endFirst = FALSE
    /\ rpt_len = 0 /\ rpt_cnt = 0
    /\ flagGrouping = FALSE
    /\ rpt_edit = 0
    /\ pc = "merge"
    /\ count = 0 /\ rpt_positions = <<>> /\ min_lcp_len = 0
    /\ rpt_grp_ \in MergeLists
    /\ rpt_ranges = <<>> /\ merged_count = 0
    /\ gi = 0 /\ mgroup = <<>> /\ saved = <<>>

MergeNext == MergeRepeatGroup

SpecMerge == MergeInit /\ [][MergeNext]_vars

(***************************************************************************)
(* Claims about the fragment map                                           *)
(***************************************************************************)
\* Indices (0-based) of the fragments before the terminator, and those of
\* them that cover joined position p.
RealFrags == 0 .. Len(fraglist_) - 2
Terminator == fraglist_[Len(fraglist_)]
Covering(p) == {i \in RealFrags : /\ fraglist_[i + 1].start <= p
                                  /\ p < fraglist_[i + 1].start + fraglist_[i + 1].length}

\* C1: whatever the cache holds, mapJoinedOffToSeq(p) returns the index of the
\* fragment f with f.start <= p < f.start + f.length when p lies inside a
\* fragment, and NotFound for every p at or past the terminator's start, also
\* when the list holds the terminator only.
C1_LocateCorrect ==
    call.op = "map" =>
        /\ \A i \in Covering(call.a) : call.ret = i
        /\ call.a >= Terminator.start => call.ret = NotFound
        /\ call.a < Terminator.start => Covering(call.a) # {}

\* C1 witness: a position inside a later fragment answered from a cache whose
\* slots have already been replaced.
C1_Witness ==
    /\ call.op = "map" /\ call.hit /\ call.ret >= 1
    /\ num_cached_ = CACHE_SIZE_JOINEDFRG /\ victim_ > 0

\* C2: every query returns what the binary search alone returns, whatever the
\* cache holds.
C2_CacheTransparent ==
    call.op = "map" => call.ret = SearchList(fraglist_, call.a)

\* C2 witness: a query answered by a full cache for a fragment whose index
\* differs from the index of its record.
C2_Witness ==
    /\ call.op = "map" /\ call.hit
    /\ num_cached_ = CACHE_SIZE_JOINEDFRG
    /\ \E i \in 1 .. Len(szs_) :
          /\ szs_[i].len > 0
          /\ fraglist_[call.ret + 1].start
               = SeqSum([k \in 1 .. Len(szs_) |-> szs_[k].len], i - 1)
          /\ i - 1 # call.ret

\* C9: for p inside fragment f, getGenomeCoord(p) succeeds with
\* pos_in_chr = f.start_in_seq + (p - f.start) and the name index f.seq_id,
\* f.start + (pos_in_chr - f.start_in_seq) gives p back, and distinct in-range
\* positions get distinct (sequence, position) pairs.
C9_CoordRoundTrip ==
    /\ call.op = "coord" =>
          \A i \in Covering(call.a) :
              LET f == fraglist_[i + 1]
              IN /\ call.ret = 0
                 /\ call.written
                 /\ call.pos_in_chr = f.start_in_seq + (call.a - f.start)
                 /\ call.chr = f.seq_id
                 /\ call.chr >= 0
                 /\ f.start + (call.pos_in_chr - f.start_in_seq) = call.a
    /\ \A p, q \in 0 .. Terminator.start - 1 :
          LET gp == getGenomeCoord(fraglist_, Cache, p)
              gq == getGenomeCoord(fraglist_, Cache, q)
          IN p # q => <<gp.chr, gp.pos_in_chr>> # <<gq.chr, gq.pos_in_chr>>

\* C9 witness: a translation inside a fragment that starts after a gap, in a
\* sequence that is not the first one.
C9_Witness ==
    /\ call.op = "coord" /\ call.ret = 0 /\ call.chr >= 1
    /\ \E i \in Covering(call.a) :
          /\ fraglist_[i + 1].start > 0
          /\ call.a > fraglist_[i + 1].start
          /\ fraglist_[i + 1].start_in_seq > fraglist_[i + 1].start

\* The cache probe of mapJoinedOffToSeq(p) finds p in an occupied slot.
Probed(p) == \E i \in 0 .. num_cached_ - 1 : contain(cached_[i], p)
\* The fragment of the list that holds p.
FragOf(p) == fraglist_[(CHOOSE j \in Covering(p) : TRUE) + 1]

\* C23: a lookup that hits the cache and a lookup that finds no fragment
\* leave the cache as it is.  A lookup that misses the cache and finds its
\* fragment in the list writes the fragment into slot num_cached_ while
\* there is a free slot, leaving the cursor at 0; once every slot is
\* occupied it writes into the slot under the cursor and moves the cursor
\* one slot on, cyclically, so that slots are replaced in the order
\* 0, 1, ..., CACHE_SIZE_JOINEDFRG - 1, 0, ...: the order they were written in.
C23_RoundRobin ==
    /\ [](num_cached_ < CACHE_SIZE_JOINEDFRG => victim_ = 0)
    /\ [][LET p == call'.a
          IN /\ call'.op \in {"map", "coord"}
             /\ Probed(p) => UNCHANGED cacheVars
             /\ Covering(p) = {} =>
                   (UNCHANGED cacheVars /\ call'.ret = NotFound)
             /\ (~Probed(p) /\ Covering(p) # {}) =>
                   IF num_cached_ < CACHE_SIZE_JOINEDFRG
                   THEN /\ cached_' = [cached_ EXCEPT ![num_cached_] = FragOf(p)]
                        /\ num_cached_' = num_cached_ + 1
                        /\ victim_' = victim_
                   ELSE /\ cached_' = [cached_ EXCEPT ![victim_] = FragOf(p)]
                        /\ num_cached_' = num_cached_
                        /\ victim_' = (victim_ + 1) % CACHE_SIZE_JOINEDFRG
         ]_vars

\* C23 witness: the cache is full, the last lookup missed it, found its
\* fragment in the list and put it in the place of the fragment in slot 0,
\* and the cursor has moved on.
C23_Witness ==
    /\ call.op = "map" /\ call.ret >= 0 /\ ~call.hit
    /\ num_cached_ = CACHE_SIZE_JOINEDFRG
    /\ victim_ = 1
    /\ cached_[0] = fraglist_[call.ret + 1]
    /\ \A i \in 1 .. CACHE_SIZE_JOINEDFRG - 1 : cached_[i] # cached_[0]

Occupied == 0 .. num_cached_ - 1

\* C26: in every state 0 <= num_cached_ <= CACHE_SIZE_JOINEDFRG and
\* 0 <= victim_ < CACHE_SIZE_JOINEDFRG; every occupied slot holds a copy of
\* a fragment of the list before the terminator, of length one or more,
\* whose frag_id is the index of that fragment; no two occupied slots hold
\* the same fragment.
C26_CacheWellFormed ==
    /\ num_cached_ >= 0 /\ num_cached_ <= CACHE_SIZE_JOINEDFRG
    /\ victim_ >= 0 /\ victim_ < CACHE_SIZE_JOINEDFRG
    /\ \A i \in Occupied :
          /\ cached_[i].frag_id \in RealFrags
          /\ cached_[i] = fraglist_[cached_[i].frag_id + 1]
          /\ cached_[i].length > 0
    /\ \A i, j \in Occupied :
          i # j => /\ cached_[i] # cached_[j]
                   /\ cached_[i].frag_id # cached_[j].frag_id
                   /\ cached_[i].start # cached_[j].start

\* C26 witness: the list has more fragments than the cache has slots, every
\* slot is occupied, a slot has been replaced, the last fragment is cached
\* and the last lookup was answered from the cache.
C26_Witness ==
    /\ Len(fraglist_) - 1 > CACHE_SIZE_JOINEDFRG
    /\ num_cached_ = CACHE_SIZE_JOINEDFRG /\ victim_ = CACHE_SIZE_JOINEDFRG - 1
    /\ call.op = "coord" /\ call.hit
    /\ \E i \in Occupied : cached_[i].frag_id = Len(fraglist_) - 2

(***************************************************************************)
(* Claims about buildJoinedFragment                                        *)
(***************************************************************************)
\* The record (1-based) that fragment n (0-based) was made from: the
\* (n + 1)-th record of non-zero length.
RecordOf(n) ==
    CHOOSE r \in 1 .. Len(szs_) :
        /\ szs_[r].len > 0
        /\ Cardinality({q \in 1 .. r - 1 : szs_[q].len > 0}) = n
\* The record that opens the original sequence of record r: the last record
\* up to r that is marked first.
FirstOf(r) ==
    CHOOSE f \in 1 .. r :
        szs_[f].first /\ \A q \in f + 1 .. r : ~szs_[q].first
\* Gaps and lengths of records f .. r - 1, and the gap of record r.
OffsetInSeq(f, r) ==
    SeqSum([k \in 1 .. r - f |-> szs_[f + k - 1].off + szs_[f + k - 1].len], r - f)
    + szs_[r].off

\* C18: start_in_seq of every fragment is the offset of its first base in
\* its own original sequence: the gaps and lengths of the earlier records of
\* that sequence, from its first record on, plus the fragment's own gap.
C18_AsClaimed ==
    \A n \in RealFrags :
        fraglist_[n + 1].start_in_seq = OffsetInSeq(FirstOf(RecordOf(n)), RecordOf(n))

\* Number of non-empty records, and the lengths of the records before r.
NonEmptyRecords == {r \in 1 .. Len(szs_) : szs_[r].len > 0}
LengthBefore(r) == SeqSum([k \in 1 .. r - 1 |-> szs_[k].len], r - 1)

\* C19: in every state fraglist_ holds one fragment per record of non-zero
\* length, in the order of the records, each with the record's length and
\* starting where the one before it ends (the first at 0, so starts increase
\* strictly), and after them one terminator of length 0 that starts at the
\* sum of all record lengths; no query changes the list.
C19_FragmentList ==
    /\ Len(fraglist_) = Cardinality(NonEmptyRecords) + 1
    /\ \A n \in RealFrags :
          /\ fraglist_[n + 1].length = szs_[RecordOf(n)].len
          /\ fraglist_[n + 1].length > 0
          /\ fraglist_[n + 1].start = LengthBefore(RecordOf(n))
          /\ n = 0 => fraglist_[n + 1].start = 0
          /\ fraglist_[n + 2].start
                = fraglist_[n + 1].start + fraglist_[n + 1].length
          /\ fraglist_[n + 2].start > fraglist_[n + 1].start
          /\ n > 0 => RecordOf(n) > RecordOf(n - 1)
    /\ Terminator.length = 0
    /\ Terminator.start = JoinedLen
    /\ fraglist_ = buildJoinedFragment(szs_)

\* C19 witness: the record list has an empty record between two non-empty
\* ones and a gap before the last, and lookups have filled the cache.
C19_Witness ==
    /\ Len(szs_) = 3
    /\ szs_[1].len > 0 /\ szs_[2].len = 0 /\ szs_[3].len > 0 /\ szs_[3].off > 0
    /\ Len(fraglist_) = 3
    /\ num_cached_ = CACHE_SIZE_JOINEDFRG
    /\ call.op = "coord" /\ call.ret >= 0

(***************************************************************************)
(* Queries of the LCP oracle                                               *)
(***************************************************************************)
\* one call of getLCP(a, b)
LcpQuery ==
    \E a, b \in 0 .. Len(s_) :
        LET g == getLCP(fraglist_, Cache, s_, forward_, a, b)
        IN /\ pc = "idle"
           /\ SetCache(g.cache)
           /\ call' = [NoCall EXCEPT !.op = "lcp", !.a = a, !.b = b,
                          !.ret = g.ret, !.hit = g.failed,
                          !.reads = g.reads]
           /\ UNCHANGED <<objVars, pc, argVars, scanVars, rpt_grp_, postVars>>

LcpInit ==
    /\ ObjInit(PlainRecords)
    /\ s_ \in [1 .. JoinedLen -> Bases]
    /\ forward_ \in BOOLEAN
    /\ endFirst = FALSE
    /\ pc = "idle"
    /\ IdleBuild

LcpNext == LcpQuery

SpecLcp == LcpInit /\ [][LcpNext]_vars

\* The constructor takes the sequence and the record list separately and
\* nothing in it ties s.length() to the sum of the record lengths: here the
\* sequence is up to MaxTail bases longer than the records describe, so that
\* offsets below s.length() exist that no fragment covers.
TailRecords ==
    UNION {[1 .. n -> [len : 0 .. MaxFragLen, off : {0}, first : {TRUE}]] :
           n \in 1 .. MaxPlainRecs}

LcpTailInit ==
    /\ ObjInit(TailRecords)
    /\ \E t \in 0 .. MaxTail : s_ \in [1 .. JoinedLen + t -> Bases]
    /\ forward_ \in BOOLEAN
    /\ endFirst = FALSE
    /\ pc = "idle"
    /\ IdleBuild

SpecLcpTail == LcpTailInit /\ [][LcpNext]_vars

\* C11: getLCP(a, b) returns 0 and compares no base whenever a or b is at or
\* after the end of the sequence, and whenever the fragment lookup of a's or
\* of b's position (mirrored in reverse-complement mode) finds no fragment.
C11_ZeroOnMiss ==
    call.op = "lcp" =>
        LET s_len == Len(s_)
            pa == IF forward_ THEN call.a ELSE s_len - call.a - 1
            pb == IF forward_ THEN call.b ELSE s_len - call.b - 1
        IN (\/ call.a >= s_len \/ call.b >= s_len
            \/ Covering(pa) = {} \/ Covering(pb) = {})
           => (call.ret = 0 /\ call.reads = 0)

\* C11 witness: a call in reverse-complement mode with both offsets inside
\* the sequence and equal bases at them, where the lookup of one side fails.
C11_Witness ==
    /\ call.op = "lcp" /\ ~forward_
    /\ call.a < Len(s_) /\ call.b < Len(s_) /\ call.a # call.b
    /\ s_[call.a + 1] = s_[call.b + 1]
    /\ Covering(Len(s_) - call.a - 1) # {}
    /\ Covering(Len(s_) - call.b - 1) = {}
    /\ call.hit /\ call.ret = 0

(***************************************************************************)
(* Claims about the LCP oracle                                             *)
(***************************************************************************)
\* End (start + length) of the fragment that covers joined position p.
FragEnd(p) ==
    LET i == CHOOSE j \in Covering(p) : TRUE
    IN fraglist_[i + 1].start + fraglist_[i + 1].length

\* k bases from a and from b agree and stay inside the fragments of a and b.
CommonInside(a, b, k) ==
    /\ a + k <= FragEnd(a)
    /\ b + k <= FragEnd(b)
    /\ \A i \in 0 .. k - 1 : s_[a + i + 1] = s_[b + i + 1]

\* C3: in forward mode, for a and b below the joined length, getLCP(a, b) is
\* the length of the longest run of equal bases from a and from b that stays
\* inside the fragment of a and inside the fragment of b.
C3_ForwardClipped ==
    (call.op = "lcp" /\ forward_ /\ call.a < Len(s_) /\ call.b < Len(s_)) =>
        /\ CommonInside(call.a, call.b, call.ret)
        /\ ~CommonInside(call.a, call.b, call.ret + 1)
        /\ call.ret <= FragEnd(call.a) - call.a
        /\ call.ret <= FragEnd(call.b) - call.b

\* C3 witness: a forward call whose run of equal bases goes on behind the end
\* of a's fragment and is cut there.
C3_Witness ==
    /\ call.op = "lcp" /\ forward_ /\ call.a < Len(s_) /\ call.b < Len(s_)
    /\ call.ret >= 1
    /\ call.a + call.ret = FragEnd(call.a)
    /\ call.a + call.ret < Len(s_)
    /\ call.b + call.ret < FragEnd(call.b)
    /\ s_[call.a + call.ret + 1] = s_[call.b + call.ret + 1]

\* The offset of s_ that mirrors offset p.
Mirror(p) == Len(s_) - p - 1
InCache(f) == \E i \in 0 .. num_cached_ - 1 : cached_[i] = f

\* C24: in reverse-complement mode, for a and b below the joined length,
\* getLCP(a, b) looks up the fragments fa and fb of the mirrored positions
\* (both are cached when it returns) and returns a k <= the number of equal
\* bases from a and from b with a + k <= s_len - fa.start and
\* b + k <= s_len - fb.start; k stops short of both bounds only at a pair of
\* different bases.
C24_ReverseClipped ==
    (call.op = "lcp" /\ ~forward_ /\ call.a < Len(s_) /\ call.b < Len(s_)) =>
        /\ Covering(Mirror(call.a)) # {} /\ Covering(Mirror(call.b)) # {}
        /\ LET fa == FragOf(Mirror(call.a))
               fb == FragOf(Mirror(call.b))
               k == call.ret
           IN /\ InCache(fa) /\ InCache(fb)
              /\ k >= 0
              /\ call.a + k <= Len(s_) - fa.start
              /\ call.b + k <= Len(s_) - fb.start
              /\ \A i \in 0 .. k - 1 : s_[call.a + i + 1] = s_[call.b + i + 1]
              /\ (call.a + k < Len(s_) - fa.start /\ call.b + k < Len(s_) - fb.start)
                    => s_[call.a + k + 1] # s_[call.b + k + 1]

\* C24 witness: a reverse-complement call whose run of equal bases goes on
\* behind the mirrored start of a's fragment and is cut there, before the
\* end of the sequence and before the bound of b.
C24_Witness ==
    /\ call.op = "lcp" /\ ~forward_ /\ call.a < Len(s_) /\ call.b < Len(s_)
    /\ call.ret >= 1
    /\ call.a + call.ret = Len(s_) - FragOf(Mirror(call.a)).start
    /\ call.a + call.ret < Len(s_)
    /\ call.b + call.ret < Len(s_) - FragOf(Mirror(call.b)).start
    /\ s_[call.a + call.ret + 1] = s_[call.b + call.ret + 1]

(***************************************************************************)
(* Claims about the repeat scanner                                         *)
(***************************************************************************)
\* The first c suffixes of the stream, and for each but the first the LCP
\* value the scan loop gets for it and its predecessor.
Stream(c) == [i \in 1 .. c |-> nextSuffix(s_, endFirst, i - 1)]
AdjLCP(str) ==
    [i \in 2 .. Len(str) |->
        getLCP(fraglist_, CacheOf(cached_, 0, 0), s_, forward_,
               str[i - 1], str[i]).ret]

\* The places where a run of suffixes ends, that is, the suffixes whose LCP
\* with their predecessor is below rpt_len.
Breaks(lcp) == {i \in DOMAIN lcp : lcp[i] < rpt_len}
\* The maximal run ended by the break at b is str[RunStart(brk, b)] ..
\* str[b - 1].
RunStart(brk, b) ==
    LET before == {1} \cup {i \in brk : i < b}
    IN CHOOSE x \in before : \A y \in before : y <= x
RunSize(brk, b) == b - RunStart(brk, b)
RunOffsets(str, brk, b) == {str[i] : i \in RunStart(brk, b) .. b - 1}
RunLCPs(lcp, brk, b) == {lcp[i] : i \in RunStart(brk, b) + 1 .. b - 1}
IsMinimumOf(v, S) == v \in S /\ \A w \in S : v <= w

\* The runs that were long enough; the k-th of them gives the k-th group.
EmittingBreaks(brk) == {b \in brk : RunSize(brk, b) >= rpt_cnt}
Rank(b, S) == Cardinality({x \in S : x <= b})
Scanning == pc \in {"scan", "merge"}
GroupOffsets(g) == {g.positions[k].joinedOff : k \in 1 .. Len(g.positions)}

\* C4 as claimed: every maximal run of m suffixes that a following suffix
\* ends yields exactly one group when m >= rpt_cnt, holding the m offsets and
\* a representative whose length is the minimum adjacent LCP of the run, and
\* no group when m < rpt_cnt.
C4_AsClaimed ==
    Scanning =>
        LET str == Stream(count)
            lcp == AdjLCP(str)
            brk == Breaks(lcp)
            emit == EmittingBreaks(brk)
        IN /\ Len(rpt_grp_) = Cardinality(emit)
           /\ \A b \in emit :
                 LET g == rpt_grp_[Rank(b, emit)]
                 IN /\ GroupOffsets(g) = RunOffsets(str, brk, b)
                    /\ Len(g.positions) = RunSize(brk, b)
                    /\ IsMinimumOf(Len(g.seq), RunLCPs(lcp, brk, b))

\* C4 amended: as claimed for runs of two or more suffixes; a run of one
\* suffix p (emitted when rpt_cnt <= 1) has no adjacent LCP and gets the rest
\* of the joined sequence from p as its representative.
C4_ScannerThreshold ==
    Scanning =>
        LET str == Stream(count)
            lcp == AdjLCP(str)
            brk == Breaks(lcp)
            emit == EmittingBreaks(brk)
        IN /\ Len(rpt_grp_) = Cardinality(emit)
           /\ \A b \in emit :
                 LET g == rpt_grp_[Rank(b, emit)]
                 IN /\ GroupOffsets(g) = RunOffsets(str, brk, b)
                    /\ Len(g.positions) = RunSize(brk, b)
                    /\ RunSize(brk, b) >= 2 =>
                          IsMinimumOf(Len(g.seq), RunLCPs(lcp, brk, b))
                    /\ RunSize(brk, b) = 1 =>
                          Len(g.seq) = Len(s_) - str[b - 1]

\* C4 witness: with rpt_cnt >= 2, one run was long enough and gave a group
\* whose representative is shorter than one of its adjacent LCPs, and
\* another run was too short and gave none.
C4_Witness ==
    /\ Scanning /\ rpt_cnt >= 2
    /\ LET str == Stream(count)
           lcp == AdjLCP(str)
           brk == Breaks(lcp)
           emit == EmittingBreaks(brk)
       IN /\ \E b \in emit :
                \E v \in RunLCPs(lcp, brk, b) :
                    Len(rpt_grp_[Rank(b, emit)].seq) < v
          /\ \E b \in brk : RunSize(brk, b) < rpt_cnt

\* The fragment of offset p as getLCP sees it, as the span <<from, to>> of
\* offsets of s_: in forward mode the fragment that covers p, in
\* reverse-complement mode the mirror image of the fragment that covers the
\* mirrored position.
OwnSpan(p) ==
    LET q == IF forward_ THEN p ELSE Len(s_) - p - 1
        f == fraglist_[(CHOOSE j \in Covering(q) : TRUE) + 1]
    IN IF forward_ THEN <<f.start, f.start + f.length>>
       ELSE <<Len(s_) - f.start - f.length, Len(s_) - f.start>>

\* C22: a group that the scanner made from a run of two suffixes or more has
\* the bases at its last-consumed suffix as representative, at least rpt_len
\* of them, and the same bases stand at every position p of the group, inside
\* the fragment of p; so the representative read at any member is the same.
C22_CommonPrefix ==
    Scanning =>
        LET str == Stream(count)
            brk == Breaks(AdjLCP(str))
            emit == EmittingBreaks(brk)
        IN \A b \in emit :
              LET g == rpt_grp_[Rank(b, emit)]
                  n == Len(g.seq)
              IN RunSize(brk, b) >= 2 =>
                    /\ n >= rpt_len
                    /\ g.seq = [i \in 1 .. n |-> s_[str[b - 1] + i]]
                    /\ \A p \in GroupOffsets(g) :
                          /\ p + n <= Len(s_)
                          /\ Covering(IF forward_ THEN p ELSE Len(s_) - p - 1) # {}
                          /\ OwnSpan(p)[1] <= p /\ p + n <= OwnSpan(p)[2]
                          /\ \A i \in 1 .. n : s_[p + i] = g.seq[i]
                          /\ getString(s_, p, n) = g.seq

\* C22 witness: a group of three suffixes or more with a representative of
\* one base or more that ends, at one member, at the end of that member's
\* fragment and before the end of the sequence.
C22_Witness ==
    /\ Scanning
    /\ \E k \in 1 .. Len(rpt_grp_) :
          LET g == rpt_grp_[k]
          IN /\ Len(g.positions) >= 3 /\ Len(g.seq) >= 1
             /\ \E p \in GroupOffsets(g) :
                   /\ p + Len(g.seq) = OwnSpan(p)[2]
                   /\ p + Len(g.seq) < Len(s_)

\* The scan loop, run to its end, emits no group at all.
NoData == EmittingBreaks(Breaks(AdjLCP(Stream(Len(s_) + 1)))) = {}

\* C12: when the scanner emitted nothing, mergeRepeatGroup builds no range
\* and leaves the group list empty, and groupRepeatGroup, if called, goes
\* straight to its end: the loop of groupRepeatGroup is never entered with
\* zero groups, and build() ends with an empty group list.  When the merger
\* did work, its range list was not empty (the assertion of line 665).
C12_NoDataShortCircuit ==
    /\ pc = "sweep" => rpt_grp_ # <<>>
    /\ pc \notin {"scan", "merge"} =>
          LET nd == NoData
          IN /\ nd => /\ rpt_ranges = <<>> /\ merged_count = 0 /\ mgroup = <<>>
                      /\ rpt_grp_ = <<>> /\ gi = 0 /\ saved = <<>>
             /\ ~nd => rpt_ranges # <<>>

\* C12 witness: build() with grouping enabled has ended on a sequence of
\* two bases or more whose scan closed a run but emitted nothing.
C12_Witness ==
    /\ pc = "done" /\ flagGrouping /\ NoData /\ Len(s_) >= 2
    /\ Breaks(AdjLCP(Stream(Len(s_) + 1))) # {}
    /\ rpt_grp_ = <<>>

\* No suffix of the open cluster is an occurrence of a group.
OpenClusterDropped ==
    \A k \in 1 .. Len(rpt_positions) : \A i \in 1 .. Len(rpt_grp_) :
        rpt_positions[k].joinedOff \notin GroupOffsets(rpt_grp_[i])
\* The LCP of the last suffix of the open cluster and the suffix that the
\* stream delivers next.
NextLCP ==
    getLCP(fraglist_, CacheOf(cached_, 0, 0), s_, forward_,
           rpt_positions[Len(rpt_positions)].joinedOff,
           nextSuffix(s_, endFirst, count)).ret

\* C14: a step of the scan loop adds a group only when the LCP of the
\* previous and the current suffix is below rpt_len, and then adds one; once
\* the loop has consumed its last suffix, the cluster that is still open is
\* never made a group, whatever its size: none of its suffixes is an
\* occurrence of any group, then or later.
C14_NoFlushAtEnd ==
    [][/\ (pc = "scan" /\ rpt_grp_' # rpt_grp_) =>
              /\ rpt_positions # <<>>
              /\ NextLCP < rpt_len
              /\ Len(rpt_grp_') = Len(rpt_grp_) + 1
       /\ pc # "scan" => rpt_positions' = rpt_positions
       /\ pc' # "scan" => OpenClusterDropped'
      ]_vars

\* C14 witness: build() has ended, the cluster left open holds at least
\* rpt_cnt >= 2 suffixes, and no group holds any of them.
C14_Witness ==
    /\ pc = "done" /\ rpt_cnt >= 2 /\ Len(rpt_positions) >= rpt_cnt
    /\ OpenClusterDropped

\* build() has returned: rpt_grp_ is the final group list.
FinalList == pc \in {"done", "saved"}

\* C13 as claimed: every group of the final list has at least rpt_cnt
\* occurrences and a representative of at least rpt_len bases.
C13_AsClaimed ==
    FinalList =>
        \A i \in 1 .. Len(rpt_grp_) :
            /\ Len(rpt_grp_[i].positions) >= rpt_cnt
            /\ Len(rpt_grp_[i].seq) >= rpt_len

\* C13 amended: every group of the final list has at least one occurrence;
\* its occurrences are among the suffixes of one scanner run of at least
\* rpt_cnt suffixes, its representative is the one the scanner gave that run
\* (at least rpt_len bases long when the run has two suffixes or more, the
\* rest of the sequence when it has one) and stands at each occurrence.
C13_FinalGroups ==
    FinalList =>
        LET str == Stream(Len(s_) + 1)
            lcp == AdjLCP(str)
            brk == Breaks(lcp)
            emit == EmittingBreaks(brk)
        IN \A i \in 1 .. Len(rpt_grp_) :
              LET g == rpt_grp_[i]
              IN /\ Len(g.positions) >= 1
                 /\ \A o \in GroupOffsets(g) :
                       /\ o + Len(g.seq) <= Len(s_)
                       /\ g.seq = getString(s_, o, Len(g.seq))
                 /\ \E b \in emit :
                       /\ GroupOffsets(g) \subseteq RunOffsets(str, brk, b)
                       /\ RunSize(brk, b) >= rpt_cnt
                       /\ RunSize(brk, b) >= 2 =>
                             /\ IsMinimumOf(Len(g.seq), RunLCPs(lcp, brk, b))
                             /\ Len(g.seq) >= rpt_len
                       /\ RunSize(brk, b) = 1 =>
                             Len(g.seq) = Len(s_) - str[b - 1]

\* C13 witness: with rpt_cnt >= 2 and the grouper enabled, the final list
\* holds a group that kept rpt_cnt occurrences and a group that the merger
\* left with fewer.
C13_Witness ==
    /\ FinalList /\ flagGrouping /\ rpt_cnt >= 2 /\ rpt_len >= 1
    /\ \E i, j \in 1 .. Len(rpt_grp_) :
          /\ Len(rpt_grp_[i].positions) >= rpt_cnt
          /\ Len(rpt_grp_[j].positions) < rpt_cnt

\* What mergeRepeatGroup leaves in rpt_grp_, told from the ranges and the
\* provisional groups it kept.
MergerOutput ==
    IF rpt_ranges = <<>> THEN <<>>
    ELSE RegroupFrom(SortByRgID(rpt_ranges), mgroup, 0)

\* C21: mergeRepeatGroup runs once, after the scan loop has consumed all
\* Len(s_) + 1 suffixes, and not before; groupRepeatGroup runs after it and
\* only when flagGrouping is true; nothing changes the group list once
\* build() has returned.  With flagGrouping false the final list is what
\* mergeRepeatGroup left and no group has an alternate.
C21_PhaseOrder ==
    /\ [](( ~flagGrouping /\ FinalList) =>
             /\ gi = 0
             /\ rpt_grp_ = MergerOutput
             /\ \A i \in 1 .. Len(rpt_grp_) : rpt_grp_[i].alt_seq = <<>>)
    /\ [][/\ pc' = "scan" => pc = "scan"
          /\ pc' = "merge" => (pc = "scan" /\ count' = Len(s_) + 1)
          /\ pc = "scan" => UNCHANGED <<rpt_ranges, merged_count, mgroup, gi>>
          /\ pc = "merge" =>
                /\ count = Len(s_) + 1
                /\ pc' = (IF flagGrouping THEN "group" ELSE "done")
          /\ pc' \in {"group", "sweep"} =>
                (flagGrouping /\ pc \in {"merge", "group", "sweep"})
          /\ pc \in {"done", "saved"} =>
                (rpt_grp_' = rpt_grp_ /\ pc' = "saved")
         ]_vars

\* C21 witness: build() without grouping has returned a list that the
\* merger changed: it removed a range and left a group.
C21_Witness ==
    /\ pc = "done" /\ ~flagGrouping
    /\ merged_count >= 1 /\ Len(rpt_grp_) >= 1
    /\ rpt_grp_ # mgroup
    /\ count = Len(s_) + 1

(***************************************************************************)
(* Claims about the range merger                                           *)
(***************************************************************************)
\* mergeRepeatGroup has run on a non-empty list: mgroup holds the groups it
\* was given, rpt_ranges the swept ranges.
Merged == pc = "done" /\ ~flagGrouping /\ Len(rpt_ranges) > 0
Survivors == {i \in 1 .. Len(rpt_ranges) : ~IsRemoved(rpt_ranges[i])}
SurvivorList == SelectSeq(rpt_ranges, LAMBDA x : ~IsRemoved(x))
Inside(a, b) == b[1] <= a[1] /\ a[2] <= b[2]
\* interval v is in the input and inside no different interval of the input
Maximal(v, inp) ==
    /\ \E i \in 1 .. Len(inp) : inp[i].range = v
    /\ \A j \in 1 .. Len(inp) :
          Inside(v, inp[j].range) => inp[j].range = v

C6_SweepIdempotent ==
    Merged =>
        \A again \in SortedByRange(SurvivorList, 1 .. Len(SurvivorList)) :
            /\ Sweep(again).merged_count = 0
            /\ Sweep(again).ranges = again

\* C6 witness: the first sweep removed two ranges or more, one of them
\* behind another removed range, and left two or more.
C6_Witness ==
    /\ Merged /\ merged_count >= 2 /\ Len(SurvivorList) >= 2
    /\ \E i \in 1 .. Len(rpt_ranges) - 2 :
          /\ ~IsRemoved(rpt_ranges[i])
          /\ IsRemoved(rpt_ranges[i + 1]) /\ IsRemoved(rpt_ranges[i + 2])

\* The provisional ids that kept a range in the sweep, and the n-th smallest
\* of a set of ids.
SurvivingIds == {rpt_ranges[k].rg_id : k \in Survivors}
NthOf(S, n) == CHOOSE x \in S : Cardinality({y \in S : y <= x}) = n
SurvivingCoords(id) ==
    {RepeatCoord(rpt_ranges[k].range[1], rpt_ranges[k].forward) :
        k \in {q \in Survivors : rpt_ranges[q].rg_id = id}}

\* C15: after mergeRepeatGroup the group list holds, in ascending order of
\* id, exactly one group for every provisional id that kept a range, with
\* that id's representative and exactly that id's surviving start offsets
\* and strands as positions, and no other group.
C15_AsClaimed ==
    Merged =>
        /\ Len(rpt_grp_) = Cardinality(SurvivingIds)
        /\ \A n \in 1 .. Cardinality(SurvivingIds) :
              n <= Len(rpt_grp_) =>
                LET id == NthOf(SurvivingIds, n)
                    g == rpt_grp_[n]
                IN /\ g.seq = mgroup[id + 1].seq
                   /\ {g.positions[k] : k \in 1 .. Len(g.positions)}
                         = SurvivingCoords(id)
                   /\ Len(g.positions)
                         = Cardinality({q \in Survivors : rpt_ranges[q].rg_id = id})

\* The positions of group g are in strictly increasing order of joinedOff.
StrictlyIncreasing(g) ==
    \A k \in 1 .. Len(g.positions) - 1 :
        g.positions[k].joinedOff < g.positions[k + 1].joinedOff

\* C25: what the scanner hands to mergeRepeatGroup is either no group at
\* all, and then the merger returns before its flatten step, or groups with
\* one position or more each, so that the flattened range list is not empty
\* (the assertion of line 665); every group that mergeRepeatGroup makes has
\* one position or more (the assertion of line 752), in strictly increasing
\* order of joinedOff, all of them start offsets of surviving ranges of one
\* provisional group.
C25_RebuiltPositions ==
    /\ pc = "merge" =>
          /\ \A i \in 1 .. Len(rpt_grp_) : Len(rpt_grp_[i].positions) >= 1
          /\ rpt_grp_ # <<>> => Len(Flatten(rpt_grp_, 1)) > 0
    /\ pc \notin {"scan", "merge"} =>
          /\ rpt_grp_ # <<>> => rpt_ranges # <<>>
          /\ \A i \in 1 .. Len(rpt_grp_) :
                /\ Len(rpt_grp_[i].positions) >= 1
                /\ StrictlyIncreasing(rpt_grp_[i])
                /\ \E id \in SurvivingIds :
                      {rpt_grp_[i].positions[k] :
                          k \in 1 .. Len(rpt_grp_[i].positions)}
                         = SurvivingCoords(id)

\* C25 witness: the merger removed a range and made a group of two
\* positions or more and a group of a single position.
C25_Witness ==
    /\ Merged /\ merged_count >= 1
    /\ \E i, j \in 1 .. Len(rpt_grp_) :
          /\ Len(rpt_grp_[i].positions) >= 2
          /\ Len(rpt_grp_[j].positions) = 1

(***************************************************************************)
(* Claims about the approximate grouper                                    *)
(***************************************************************************)
\* Unit-cost edit distance by its recursive definition.
RECURSIVE EditDistance(_, _)
EditDistance(a, b) ==
    IF Len(a) = 0 THEN Len(b)
    ELSE IF Len(b) = 0 THEN Len(a)
    ELSE Min(Min(EditDistance(Tail(a), b) + 1, EditDistance(a, Tail(b)) + 1),
             EditDistance(Tail(a), Tail(b)) + (IF Head(a) = Head(b) THEN 0 ELSE 1))

\* groupRepeatGroup has run to its end on a non-empty list; mgroup holds the
\* list with its tombstones, rpt_grp_ the compacted list.
Grouped == pc = "done" /\ flagGrouping /\ Len(mgroup) > 0 /\ gi > 0
Near(g, h) == EditDistance(g.seq, h.seq) <= rpt_edit

\* C7: a group i that is not tombstoned at its turn absorbs exactly the later
\* groups j whose representative is within edit distance rpt_edit of its
\* own: those j are tombstoned and their representatives are the alternates
\* of i, in order; groups at distance rpt_edit + 1 are not absorbed by i.
C7_GroupThreshold ==
    Grouped =>
        \A i \in 1 .. Len(mgroup) :
            ~mgroup[i].empty =>
                /\ \A j \in i + 1 .. Len(mgroup) :
                      Near(mgroup[i], mgroup[j]) => mgroup[j].empty
                /\ LET later == SubSeq(mgroup, i + 1, Len(mgroup))
                       near == SelectSeq(later, LAMBDA h : Near(mgroup[i], h))
                   IN mgroup[i].alt_seq = [k \in 1 .. Len(near) |-> near[k].seq]

\* C7 witness: with rpt_edit >= 1, a surviving group absorbed a group at
\* distance exactly rpt_edit and left a group at distance rpt_edit + 1 alone.
C7_Witness ==
    /\ Grouped /\ rpt_edit >= 1
    /\ \E i, j, k \in 1 .. Len(mgroup) :
          /\ i < j /\ i < k
          /\ ~mgroup[i].empty /\ mgroup[j].empty /\ ~mgroup[k].empty
          /\ EditDistance(mgroup[i].seq, mgroup[j].seq) = rpt_edit
          /\ EditDistance(mgroup[i].seq, mgroup[k].seq) = rpt_edit + 1
          /\ Len(mgroup[i].alt_seq) = 1

\* Number of alternates recorded by groups 1 .. n of the list.
RECURSIVE AltCount(_, _)
AltCount(grp, n) ==
    IF n = 0 THEN 0 ELSE Len(grp[n].alt_seq) + AltCount(grp, n - 1)
Tombstoned(grp) == {j \in 1 .. Len(grp) : grp[j].empty}
HasAlt(g, q) == \E k \in 1 .. Len(g.alt_seq) : g.alt_seq[k] = q

(***************************************************************************)
(* levenshtein_distance on strings of its own                              *)
(***************************************************************************)
\* one call of levenshtein_distance(s1, s2)
LevQuery ==
    \E s1, s2 \in Strings(MaxLevLen) :
        /\ pc = "idle"
        /\ call' = [NoCall EXCEPT !.op = "lev", !.a = s1, !.b = s2,
                       !.ret = levenshtein_distance(s1, s2)]
        /\ UNCHANGED <<objVars, cacheVars, pc, argVars, scanVars, rpt_grp_,
                       postVars>>

LevInit ==
    /\ ObjInit({<<[len |-> 0, off |-> 0, first |-> TRUE]>>})
    /\ s_ = <<>>
    /\ forward_ = TRUE
    /\ endFirst = FALSE
    /\ pc = "idle"
    /\ IdleBuild

LevNext == LevQuery

SpecLev == LevInit /\ [][LevNext]_vars

\* The strings one insertion, deletion or substitution away from s, no
\* longer than MaxLevLen.
OneEdit(s) ==
    {SubSeq(s, 1, i - 1) \o SubSeq(s, i + 1, Len(s)) : i \in 1 .. Len(s)}
    \cup {[s EXCEPT ![i] = c] : i \in 1 .. Len(s), c \in Bases}
    \cup (IF Len(s) < MaxLevLen
          THEN {SubSeq(s, 1, i) \o <<c>> \o SubSeq(s, i + 1, Len(s)) :
                   i \in 0 .. Len(s), c \in Bases}
          ELSE {})
\* The strings at most n such edits away from s.
RECURSIVE Within(_, _)
Within(s, n) ==
    IF n = 0 THEN {s}
    ELSE LET W == Within(s, n - 1) IN W \cup UNION {OneEdit(x) : x \in W}
\* The least number of edits that turn a into b.
ScriptDistance(a, b) ==
    CHOOSE n \in 0 .. MaxLevLen :
        b \in Within(a, n) /\ (n > 0 => b \notin Within(a, n - 1))

\* C20: levenshtein_distance(s1, s2) is the least number of single-character
\* insertions, deletions and substitutions that turn s1 into s2; it agrees
\* with the recursive edit distance, is the other string's length when one
\* string is empty, and is the same for (s2, s1).
C20_EditDistance ==
    call.op = "lev" =>
        /\ call.ret = ScriptDistance(call.a, call.b)
        /\ call.ret = EditDistance(call.a, call.b)
        /\ call.a = <<>> => call.ret = Len(call.b)
        /\ call.b = <<>> => call.ret = Len(call.a)
        /\ call.ret = levenshtein_distance(call.b, call.a)

\* C20 witness: two strings of different length, neither empty, whose
\* distance is larger than the difference of their lengths.
C20_Witness ==
    /\ call.op = "lev"
    /\ Len(call.a) >= 1 /\ Len(call.b) > Len(call.a)
    /\ call.ret > Len(call.b) - Len(call.a)
    /\ call.ret < Len(call.b)

\* C16: a group is absorbed at most once: there are as many recorded
\* alternates as tombstoned groups, and the representative of every
\* tombstoned group is an alternate of exactly one surviving group.
C16_AsClaimed ==
    Grouped =>
        /\ AltCount(mgroup, Len(mgroup)) = Cardinality(Tombstoned(mgroup))
        /\ \A j \in Tombstoned(mgroup) :
              Cardinality({i \in 1 .. Len(mgroup) :
                              ~mgroup[i].empty /\ HasAlt(mgroup[i], mgroup[j].seq)}) = 1

\* groupRepeatGroup has compacted a non-empty list.
Compacted == pc = "done" /\ flagGrouping /\ Len(mgroup) > 0

\* C17: the compacted list is the list of the groups that are not tombstoned,
\* each once and in the order of the input (the k-th input group is the one
\* with the occurrence at offset k - 1); every tombstoned group was absorbed
\* by a surviving group at a smaller index, so the first group survives and
\* the output is not empty.
C17_Compaction ==
    Compacted =>
        /\ \A k \in 1 .. Len(mgroup) :
              mgroup[k].positions = <<RepeatCoord(k - 1, TRUE)>>
        /\ rpt_grp_ = SelectSeq(mgroup, LAMBDA g : ~g.empty)
        /\ \A a, b \in 1 .. Len(rpt_grp_) :
              a < b => rpt_grp_[a].positions[1].joinedOff
                          < rpt_grp_[b].positions[1].joinedOff
        /\ \A j \in Tombstoned(mgroup) :
              \E i \in 1 .. j - 1 :
                  ~mgroup[i].empty /\ HasAlt(mgroup[i], mgroup[j].seq)
        /\ ~mgroup[1].empty
        /\ rpt_grp_ # <<>> /\ rpt_grp_[1] = mgroup[1]

\* C17 witness: of three groups the middle one was tombstoned and the outer
\* two are the output.
C17_Witness ==
    /\ Compacted /\ Len(mgroup) = 3
    /\ mgroup[2].empty /\ ~mgroup[3].empty
    /\ rpt_grp_ = <<mgroup[1], mgroup[3]>>

\* C8: in the compacted output every two groups are further apart than
\* rpt_edit, and groupRepeatGroup run again on it returns it unchanged.
C8_GroupFixedPoint ==
    Grouped =>
        /\ \A i, j \in 1 .. Len(rpt_grp_) :
              i < j => EditDistance(rpt_grp_[i].seq, rpt_grp_[j].seq) > rpt_edit
        /\ groupRepeatGroup(rpt_grp_, rpt_edit) = rpt_grp_
        /\ \A i \in 1 .. Len(rpt_grp_) : ~rpt_grp_[i].empty

\* C8 witness: a run that absorbed a group and left two groups or more.
C8_Witness ==
    /\ Grouped /\ Len(rpt_grp_) >= 2 /\ Len(rpt_grp_) < Len(mgroup)

(***************************************************************************)
(* Claims about the callers of the fragment lookup                         *)
(***************************************************************************)
\* C10: every caller treats NotFound as a negative result; in particular
\* saveRepeatGroup skips or zero-fills an occurrence whose translation
\* failed, so nothing it writes comes from a failed lookup.
C10_AsClaimed ==
    pc = "saved" =>
        \A k \in 1 .. Len(saved) :
            ~saved[k].translated => saved[k].pos_in_chr = 0

====
